---- MODULE Spec2Model ----
(***************************************************************************)
(* Parametric vase generator (src/src/main.ts, first variant, lines 1-512) *)
(*                                                                         *)
(* The specifications of this module:                                      *)
(*   Spec         the Regeneration Controller: the parameter record, the   *)
(*                needsUpdate flag, the installed geometry, the cutting     *)
(*                plane and the section lines, driven by GUI edits and by   *)
(*                the animation-loop callback;                              *)
(*   SpecLive     the controller's shape handlers and frames, with the     *)
(*                fairness of the animation loop;                           *)
(*   SpecPass     the update pass of the section state on its own;         *)
(*   SpecSection  the Section Intersector as a pure function, applied to   *)
(*                bounded triangle meshes and cutting planes;               *)
(*   SpecShape    createVaseGeometry and computeInteriorVolume as pure     *)
(*                functions of the parameter record;                        *)
(*   SpecSliders  the same two functions on the parameter records the      *)
(*                sliders can produce;                                      *)
(*   SpecVolume   computeMeshVolume as a pure function of a triangle mesh.  *)
(*                                                                         *)
(* Lengths of the controller are whole millimetres.  The sliders of        *)
(* height, baseRadius and the segment counts step by 1, so their values    *)
(* are integers; wallThickness steps by 0.1 and the model uses its whole   *)
(* values.  height * 0.4 is exact for heights that are multiples of 5,     *)
(* which are the only heights the model uses.                              *)
(***************************************************************************)
EXTENDS Integers, Sequences, FiniteSets, TLC

VARIABLES
    params,         \* the VaseParams record (lines 50-60)
    needsUpdate,    \* the dirty flag (line 138)
    vaseGeometry,   \* vaseMesh.geometry, the installed mesh (line 133)
    cachedVolume,   \* cachedVolume (line 122)
    sectionPlane,   \* sectionPlane.constant; the normal is fixed (1,0,0) (line 98)
    clippingPlanes, \* material.clippingPlanes, as "is the plane in the list" (line 152)
    sectionLines,   \* sectionLines: visible flag and geometry (lines 104-105)
    frame,          \* what the last handler did: kind of event, rebuilds, error, render
    mesh,           \* SpecSection: the triangle list handed to the intersector
    plane,          \* SpecSection: the cutting plane's constant
    bucket,         \* SpecSection: the intersections array of one triangle
    edgeCall,       \* SpecSection: the arguments of the last computeIntersection call
    lineGeometry,   \* SpecSection: the result of buildSectionLineGeometry
    lineState,      \* SpecSection: sectionLines after updateSectionLines
    shell,          \* SpecShape: the result of createVaseGeometry
    interior,       \* SpecShape: the result of computeInteriorVolume
    solid,          \* SpecVolume: the triangle list handed to computeMeshVolume
    measure         \* SpecVolume: the volumes computeMeshVolume returned

ctlVars == <<params, needsUpdate, vaseGeometry, cachedVolume, sectionPlane,
             clippingPlanes, sectionLines, frame>>
secVars == <<mesh, plane, bucket, edgeCall, lineGeometry, lineState>>
fnVars == <<shell, interior, solid, measure>>
vars == <<params, needsUpdate, vaseGeometry, cachedVolume, sectionPlane,
          clippingPlanes, sectionLines, frame,
          mesh, plane, bucket, edgeCall, lineGeometry, lineState,
          shell, interior, solid, measure>>

Max(a, b) == IF a >= b THEN a ELSE b
Min(a, b) == IF a <= b THEN a ELSE b
Abs(a) == IF a < 0 THEN -a ELSE a

(***************************************************************************)
(* Bounds and input sets                                                   *)
(***************************************************************************)
\* slider values offered to the handlers, inside the sliders' ranges
Heights == {80, 220}
BaseRadii == {20, 45}
WallThicknesses == {4, 15}
RadialSegments == {25, 96}
HeightSegments == {24, 110}
\* values written to sectionOffset before the update pass clamps them
SectionOffsets == {-20, 0, 100}

\* the absent geometry: null in the source
Null == [null |-> TRUE]
\* the empty BufferGeometry the section lines start with (line 104)
EmptyGeometry == [empty |-> TRUE]
\* a geometry that was installed once and has been replaced since
Replaced == [replaced |-> TRUE]

(***************************************************************************)
(* Geometry construction                                                   *)
(***************************************************************************)
\* the error createVaseGeometry throws when the merge yields nothing (line 264)
BuildError == [error |-> "Failed to build vase geometry"]

\* createVaseGeometry that adds the wall to the radius instead of taking it
\* off
createVaseGeometryWallOutside(current, merged) ==
    LET radialSegments == Max(12, current.radialSegments)
        heightSegments == Max(1, current.heightSegments)
        outerRadius == current.baseRadius
        innerRadius == Max(outerRadius + current.wallThickness, 2)
        bottomThickness == Min(Max(current.wallThickness * 2, 2),
                               (current.height * 4) \div 10)
        height == Max(current.height, bottomThickness + 1)
        innerHeight == Max(height - bottomThickness, 1)
    IN  IF ~merged
        THEN BuildError
        ELSE [radialSegments |-> radialSegments,
              heightSegments |-> heightSegments,
              outerRadius |-> outerRadius,
              innerRadius |-> innerRadius,
              bottomThickness |-> bottomThickness,
              height |-> height,
              innerHeight |-> innerHeight,
              innerBottom |-> bottomThickness,
              innerTop |-> bottomThickness + innerHeight,
              lipHeight |-> height,
              disposed |-> FALSE]

\* createVaseGeometry (lines 233-271).  The mesh is represented by the
\* dimensions its five parts are built with; merged stands for the result of
\* the external mergeGeometries call (FALSE: it returned null, line 263).
createVaseGeometry(current, merged) ==
    LET radialSegments == Max(12, current.radialSegments)
        heightSegments == Max(1, current.heightSegments)
        outerRadius == current.baseRadius
        innerRadius == Max(outerRadius - current.wallThickness, 2)
        bottomThickness == Min(Max(current.wallThickness * 2, 2),
                               (current.height * 4) \div 10)
        height == Max(current.height, bottomThickness + 1)
        innerHeight == Max(height - bottomThickness, 1)
    IN  IF ~merged
        THEN BuildError
        ELSE [radialSegments |-> radialSegments,
              heightSegments |-> heightSegments,
              outerRadius |-> outerRadius,
              innerRadius |-> innerRadius,
              bottomThickness |-> bottomThickness,
              height |-> height,
              innerHeight |-> innerHeight,
              innerBottom |-> bottomThickness,
              innerTop |-> bottomThickness + innerHeight,
              lipHeight |-> height,
              disposed |-> FALSE]

\* the cavity dimensions with the bottom left in the inner height
interiorCavityFullHeight(current) ==
    LET outerRadius == current.baseRadius
        innerRadius == Max(outerRadius - current.wallThickness, 0)
        bottomThickness == Min(Max(current.wallThickness * 2, 2),
                               (current.height * 4) \div 10)
        height == Max(current.height, bottomThickness + 1)
        innerHeight == Max(height, 0)
    IN  [innerRadius |-> innerRadius,
         bottomThickness |-> bottomThickness,
         height |-> height,
         innerHeight |-> innerHeight]

\* the cavity dimensions computeInteriorVolume works with (lines 274-279)
interiorCavity(current) ==
    LET outerRadius == current.baseRadius
        innerRadius == Max(outerRadius - current.wallThickness, 0)
        bottomThickness == Min(Max(current.wallThickness * 2, 2),
                               (current.height * 4) \div 10)
        height == Max(current.height, bottomThickness + 1)
        innerHeight == Max(height - bottomThickness, 0)
    IN  [innerRadius |-> innerRadius,
         bottomThickness |-> bottomThickness,
         height |-> height,
         innerHeight |-> innerHeight]

\* computeInteriorVolume that takes the whole height for the cavity
computeInteriorVolumeNoBottom(current) ==
    LET cavity == interiorCavity(current)
    IN  IF cavity.innerRadius <= 0
        THEN 0
        ELSE cavity.innerRadius * cavity.innerRadius * cavity.height

\* computeInteriorVolume (lines 273-281).  The result is a multiple of
\* Math.PI; the model keeps the factor that multiplies it, in mm^3, so that
\* n stands for Math.PI * n and 0 for the 0 of line 276.
computeInteriorVolume(current) ==
    LET cavity == interiorCavity(current)
    IN  IF cavity.innerRadius <= 0
        THEN 0
        ELSE cavity.innerRadius * cavity.innerRadius * cavity.innerHeight

\* computeMeshVolume applied to the installed vase mesh (line 288).  The
\* triangle sum of the revolved mesh is not an integer quantity, so the cached
\* value is kept as the term "volume of this geometry".
vaseMeshVolume(geometry) == [volumeOf |-> geometry]

\* buildSectionLineGeometry applied to the installed vase mesh and the plane
\* x = -constant (line 168): null when every vertex lies on one side of the
\* plane, beyond the tolerance; otherwise the lines cut from this geometry
\* by this plane.  The base and the lip (lines 249, 258) have the vertex
\* (outerRadius, 0), so the mesh reaches x = outerRadius; it reaches
\* x = -outerRadius only when radialSegments is even, the vertex opposite
\* being then one of the circle's.  With an odd count the lowest x is short
\* of -outerRadius by less than 1 mm and more than the tolerance, so of the
\* whole-millimetre planes only x = -outerRadius is missed.
vaseSectionLines(geometry, constant) ==
    IF \/ -constant > geometry.outerRadius
       \/ -constant < -geometry.outerRadius
       \/ (-constant = -geometry.outerRadius /\ geometry.radialSegments % 2 = 1)
    THEN Null
    ELSE [cutFrom |-> geometry, constant |-> constant]

(***************************************************************************)
(* The controller's functions, on the record s of the program's state.     *)
(* s also carries what the running handler has done so far: builds (calls  *)
(* of updateVaseMesh), threw (an exception is propagating) and rendered    *)
(* (the geometry renderer.render drew).                                    *)
(***************************************************************************)
\* a clamp that forgets the lower limit
clampUpperOnly(value, lo, hi) == Min(hi, value)

\* MathUtils.clamp (line 145)
clamp(value, lo, hi) == Max(lo, Min(hi, value))

\* getSectionLimit (line 141)
getSectionLimit(p) == Max(p.baseRadius - p.wallThickness, 5)

\* showSectionLines that installs whatever the intersector returned
showSectionLinesUnchecked(enabled, built, lines) ==
    IF ~enabled
    THEN [lines EXCEPT !.visible = FALSE]
    ELSE [geometry |-> built, visible |-> TRUE]

\* the body of updateSectionLines (lines 163-176), given what
\* buildSectionLineGeometry returns at line 168
showSectionLines(enabled, built, lines) ==
    IF ~enabled
    THEN [lines EXCEPT !.visible = FALSE]
    ELSE IF built = Null
         THEN [lines EXCEPT !.visible = FALSE]
         ELSE [geometry |-> built, visible |-> TRUE]

\* updateSectionLines (lines 162-177) on the installed vase mesh
updateSectionLines(s) ==
    [s EXCEPT !.sectionLines =
        showSectionLines(s.params.sectionEnabled,
                         vaseSectionLines(s.vaseGeometry, s.sectionPlane), @)]

\* updateSectionState (lines 143-155)
updateSectionState(s) ==
    LET limit == getSectionLimit(s.params)
        clamped == [s EXCEPT !.params.sectionOffset =
                                 clamp(s.params.sectionOffset, -limit, limit)]
        planed == [clamped EXCEPT !.sectionPlane = -clamped.params.sectionOffset,
                                  !.clippingPlanes = clamped.params.sectionEnabled]
    IN  updateSectionLines(planed)

\* refreshGeometry that forgets to set the dirty flag
refreshGeometryNoFlag(s) == updateSectionState(s)

\* refreshGeometry (lines 157-160)
refreshGeometry(s) == updateSectionState([s EXCEPT !.needsUpdate = TRUE])

\* The section lines remember the geometry they were cut from as long as an
\* equal geometry is installed; lines cut from any other geometry are lines
\* of a replaced geometry, whichever it was.
AfterInstall(lines, installed) ==
    IF lines.geometry \in {EmptyGeometry, Null} \/ lines.geometry.cutFrom = installed
    THEN lines
    ELSE [lines EXCEPT !.geometry.cutFrom = Replaced]

\* updateVaseMesh that disposes the installed geometry before the new one is
\* built
updateVaseMeshDisposeFirst(s, merged) ==
    LET called == [s EXCEPT !.builds = @ + 1]
        released == [called EXCEPT !.vaseGeometry.disposed = TRUE]
        nextGeometry == createVaseGeometry(s.params, merged)
    IN  IF nextGeometry = BuildError
        THEN [released EXCEPT !.threw = TRUE]
        ELSE LET installed == [released EXCEPT
                                  !.vaseGeometry = nextGeometry,
                                  !.sectionLines = AfterInstall(@, nextGeometry)]
                 measured == [installed EXCEPT
                                 !.cachedVolume = vaseMeshVolume(installed.vaseGeometry)]
             IN  updateSectionLines(measured)

\* updateVaseMesh that leaves the section lines as they are
updateVaseMeshKeepsLines(s, merged) ==
    LET nextGeometry == createVaseGeometry(s.params, merged)
        called == [s EXCEPT !.builds = @ + 1]
    IN  IF nextGeometry = BuildError
        THEN [called EXCEPT !.threw = TRUE]
        ELSE LET released == [called EXCEPT !.vaseGeometry.disposed = TRUE]
                 installed == [released EXCEPT
                                  !.vaseGeometry = nextGeometry,
                                  !.sectionLines = AfterInstall(@, nextGeometry)]
             IN  [installed EXCEPT
                     !.cachedVolume = vaseMeshVolume(installed.vaseGeometry)]

\* updateVaseMesh (lines 283-292)
updateVaseMesh(s, merged) ==
    LET nextGeometry == createVaseGeometry(s.params, merged)
        called == [s EXCEPT !.builds = @ + 1]
    IN  IF nextGeometry = BuildError
        THEN [called EXCEPT !.threw = TRUE]
        ELSE LET released == [called EXCEPT !.vaseGeometry.disposed = TRUE]
                 installed == [released EXCEPT
                                  !.vaseGeometry = nextGeometry,
                                  !.sectionLines = AfterInstall(@, nextGeometry)]
                 measured == [installed EXCEPT
                                 !.cachedVolume = vaseMeshVolume(installed.vaseGeometry)]
             IN  updateSectionLines(measured)

\* an animation callback that rebuilds on every frame, dirty or not
animationLoopAlways(s, merged) ==
    LET updated == updateVaseMesh(s, merged)
    IN  IF updated.threw
        THEN updated
        ELSE [updated EXCEPT !.needsUpdate = FALSE, !.rendered = updated.vaseGeometry]

\* an animation callback that clears the flag in any case, also when the
\* build threw
animationLoopClearsOnError(s, merged) ==
    LET updated == IF s.needsUpdate THEN updateVaseMesh(s, merged) ELSE s
    IN  IF updated.threw
        THEN [updated EXCEPT !.needsUpdate = FALSE]
        ELSE [updated EXCEPT !.needsUpdate = FALSE, !.rendered = updated.vaseGeometry]

\* an animation callback that rebuilds when the flag is set and leaves the
\* flag as it is
animationLoopKeepsFlag(s, merged) ==
    LET updated == IF s.needsUpdate THEN updateVaseMesh(s, merged) ELSE s
    IN  IF updated.threw
        THEN updated
        ELSE [updated EXCEPT !.rendered = updated.vaseGeometry]

\* the callback given to renderer.setAnimationLoop (lines 502-509)
animationLoop(s, merged) ==
    LET updated == IF s.needsUpdate THEN updateVaseMesh(s, merged) ELSE s
    IN  IF updated.threw
        THEN updated
        ELSE LET cleared == IF s.needsUpdate
                            THEN [updated EXCEPT !.needsUpdate = FALSE]
                            ELSE updated
             IN  [cleared EXCEPT !.rendered = cleared.vaseGeometry]

(***************************************************************************)
(* The controller as a state machine                                       *)
(***************************************************************************)
\* the parameter record as written at lines 50-60
InitialParams ==
    [height |-> 220, baseRadius |-> 45, wallThickness |-> 4,
     radialSegments |-> 96, heightSegments |-> 110,
     sectionEnabled |-> FALSE, sectionOffset |-> 0]

\* the program's state on entry to a handler
Entry ==
    [params |-> params, needsUpdate |-> needsUpdate, vaseGeometry |-> vaseGeometry,
     cachedVolume |-> cachedVolume, sectionPlane |-> sectionPlane,
     clippingPlanes |-> clippingPlanes, sectionLines |-> sectionLines,
     builds |-> 0, threw |-> FALSE, rendered |-> Null]

\* the state when the module has been evaluated (lines 133-139, 511-512)
Loaded ==
    LET built == createVaseGeometry(InitialParams, TRUE)
        constructed ==
            [params |-> InitialParams, needsUpdate |-> FALSE, vaseGeometry |-> built,
             cachedVolume |-> vaseMeshVolume(built), sectionPlane |-> 0,
             clippingPlanes |-> FALSE,
             sectionLines |-> [geometry |-> EmptyGeometry, visible |-> FALSE],
             builds |-> 0, threw |-> FALSE, rendered |-> Null]
    IN  updateSectionState(refreshGeometry(constructed))

\* the shape parameters whose current value the geometry was not built with
Pending(p, geometry) ==
    LET current == createVaseGeometry(p, TRUE)
    IN  Cardinality({f \in {"height", "outerRadius", "bottomThickness",
                            "radialSegments", "heightSegments"} :
                        current[f] # geometry[f]})

\* the handler's result becomes the next state; frame records the handler:
\* the kind of event, whether it started Dirty, for a tick how many shape
\* parameters were pending, and what the handler did
Commit(s, event) ==
    /\ params' = s.params
    /\ needsUpdate' = s.needsUpdate
    /\ vaseGeometry' = s.vaseGeometry
    /\ cachedVolume' = s.cachedVolume
    /\ sectionPlane' = s.sectionPlane
    /\ clippingPlanes' = s.clippingPlanes
    /\ sectionLines' = s.sectionLines
    /\ frame' = [event |-> event,
                 wasDirty |-> needsUpdate,
                 pending |-> IF event = "tick" THEN Pending(params, vaseGeometry) ELSE 0,
                 builds |-> s.builds,
                 threw |-> s.threw,
                 rendered |-> s.rendered]
    /\ UNCHANGED secVars
    /\ UNCHANGED fnVars

IdleSection ==
    /\ mesh = <<>>
    /\ plane = 0
    /\ bucket = <<>>
    /\ edgeCall = Null
    /\ lineGeometry = Null
    /\ lineState = [geometry |-> EmptyGeometry, visible |-> FALSE]

IdleFunctions ==
    /\ shell = Null
    /\ interior = Null
    /\ solid = <<>>
    /\ measure = Null

Init ==
    /\ params = Loaded.params
    /\ needsUpdate = Loaded.needsUpdate
    /\ vaseGeometry = Loaded.vaseGeometry
    /\ cachedVolume = Loaded.cachedVolume
    /\ sectionPlane = Loaded.sectionPlane
    /\ clippingPlanes = Loaded.clippingPlanes
    /\ sectionLines = Loaded.sectionLines
    /\ frame = [event |-> "load", wasDirty |-> FALSE, pending |-> 0, builds |-> 0,
                threw |-> FALSE, rendered |-> Null]
    /\ IdleSection
    /\ IdleFunctions

\* GUI onChange handlers of the shape parameters (lines 295-305)
SetHeight ==
    \E v \in Heights :
        Commit(refreshGeometry([Entry EXCEPT !.params.height = v]), "edit")

SetBaseRadius ==
    \E v \in BaseRadii :
        Commit(refreshGeometry([Entry EXCEPT !.params.baseRadius = v]), "edit")

SetWallThickness ==
    \E v \in WallThicknesses :
        Commit(refreshGeometry([Entry EXCEPT !.params.wallThickness = v]), "edit")

SetRadialSegments ==
    \E v \in RadialSegments :
        Commit(refreshGeometry([Entry EXCEPT !.params.radialSegments = v]), "edit")

SetHeightSegments ==
    \E v \in HeightSegments :
        Commit(refreshGeometry([Entry EXCEPT !.params.heightSegments = v]), "edit")

\* GUI onChange handlers of the section parameters (lines 310-314)
SetSectionEnabled ==
    \E v \in BOOLEAN :
        Commit(updateSectionState([Entry EXCEPT !.params.sectionEnabled = v]), "edit")

SetSectionOffset ==
    \E v \in SectionOffsets :
        Commit(updateSectionState([Entry EXCEPT !.params.sectionOffset = v]), "edit")

\* one animation frame (lines 502-509); the merge may yield nothing
AnimationFrame ==
    \E merged \in BOOLEAN :
        Commit(animationLoop(Entry, merged), "tick")

Next ==
    \/ SetHeight
    \/ SetBaseRadius
    \/ SetWallThickness
    \/ SetRadialSegments
    \/ SetHeightSegments
    \/ SetSectionEnabled
    \/ SetSectionOffset
    \/ AnimationFrame

Spec == Init /\ [][Next]_vars

\* one animation frame in which the merge yields a geometry
BuiltFrame ==
    \E built \in {animationLoop(Entry, TRUE)} : Commit(built, "tick")

\* the shape handlers and the animation frames, with the section left
\* disabled as it is at start-up
NextLive ==
    \/ SetHeight
    \/ SetBaseRadius
    \/ SetWallThickness
    \/ SetRadialSegments
    \/ SetHeightSegments
    \/ AnimationFrame

\* The browser keeps calling the callback of setAnimationLoop (line 502), and
\* the merge of the five parts does yield a geometry: a frame that builds is
\* not put off for ever.
SpecLive == Init /\ [][NextLive]_vars /\ WF_vars(BuiltFrame)

(***************************************************************************)
(* Section Intersector (lines 377-468)                                     *)
(*                                                                         *)
(* Lengths here are in units of 0.0001 mm, so that the default tolerance   *)
(* 1e-4 is 1 unit: a distance of 0 is below the tolerance, 1 is at it, 2   *)
(* and more are beyond it; 5 mm is 50000 units.  A point is a triple of    *)
(* integers; a point the intersector emits is a triple of reduced          *)
(* fractions <<n, d>>, d > 0, because an interpolated point need not be an *)
(* integer point.                                                          *)
(***************************************************************************)
\* model units in a millimetre
UnitsPerMillimetre == 10000
\* the default tolerance 1e-4 (line 377), in model units
Tolerance == UnitsPerMillimetre \div 10000

RECURSIVE GCD(_, _)
GCD(a, b) == IF b = 0 THEN a ELSE GCD(b, a % b)

\* the fraction n/d in lowest terms with a positive denominator
Fraction(n, d) ==
    LET g == GCD(Abs(n), Abs(d))
        sign == IF d < 0 THEN -1 ELSE 1
    IN  <<(sign * n) \div g, (sign * d) \div g>>

\* Vector3.clone of a vertex (lines 446, 451, 456)
clone(p) == <<Fraction(p[1], 1), Fraction(p[2], 1), Fraction(p[3], 1)>>

\* p1.clone().lerp(p2, t), t a fraction (line 466): p1 + (p2 - p1) * t
lerp(p1, p2, t) ==
    <<Fraction(p1[1] * t[2] + (p2[1] - p1[1]) * t[1], t[2]),
      Fraction(p1[2] * t[2] + (p2[2] - p1[2]) * t[1], t[2]),
      Fraction(p1[3] * t[2] + (p2[3] - p1[3]) * t[1], t[2])>>

\* Plane.distanceToPoint (lines 397-399): normal . point + constant
distanceToPoint(pl, point) ==
    pl.normal[1] * point[1] + pl.normal[2] * point[2] + pl.normal[3] * point[3]
        + pl.constant

\* computeIntersection with the sign change tested in one direction only
computeIntersectionOneWay(p1, p2, d1, d2, intersections, tolerance) ==
    LET hasSignChange == d1 > tolerance /\ d2 < -tolerance
        onPlane1 == Abs(d1) <= tolerance
        onPlane2 == Abs(d2) <= tolerance
    IN  IF onPlane1 /\ onPlane2 THEN intersections \o <<clone(p1), clone(p2)>>
        ELSE IF onPlane1 THEN Append(intersections, clone(p1))
        ELSE IF onPlane2 THEN Append(intersections, clone(p2))
        ELSE IF ~hasSignChange THEN intersections
        ELSE LET t == Fraction(d1, d1 - d2)
             IN  IF t[1] >= 0 /\ t[1] <= t[2]
                 THEN Append(intersections, lerp(p1, p2, t))
                 ELSE intersections

\* computeIntersection that interpolates from the wrong end
computeIntersectionWrongEnd(p1, p2, d1, d2, intersections, tolerance) ==
    LET hasSignChange == \/ (d1 > tolerance /\ d2 < -tolerance)
                         \/ (d1 < -tolerance /\ d2 > tolerance)
        onPlane1 == Abs(d1) <= tolerance
        onPlane2 == Abs(d2) <= tolerance
    IN  IF onPlane1 /\ onPlane2 THEN intersections \o <<clone(p1), clone(p2)>>
        ELSE IF onPlane1 THEN Append(intersections, clone(p1))
        ELSE IF onPlane2 THEN Append(intersections, clone(p2))
        ELSE IF ~hasSignChange THEN intersections
        ELSE LET t == Fraction(d2, d2 - d1)
             IN  IF t[1] >= 0 /\ t[1] <= t[2]
                 THEN Append(intersections, lerp(p1, p2, t))
                 ELSE intersections

\* computeIntersection (lines 432-468); the result is the bucket after the
\* call (the plane argument is not read by the source)
computeIntersection(p1, p2, d1, d2, intersections, tolerance) ==
    LET hasSignChange == \/ (d1 > tolerance /\ d2 < -tolerance)
                         \/ (d1 < -tolerance /\ d2 > tolerance)
        onPlane1 == Abs(d1) <= tolerance
        onPlane2 == Abs(d2) <= tolerance
    IN  IF onPlane1 /\ onPlane2 THEN intersections \o <<clone(p1), clone(p2)>>
        ELSE IF onPlane1 THEN Append(intersections, clone(p1))
        ELSE IF onPlane2 THEN Append(intersections, clone(p2))
        ELSE IF ~hasSignChange THEN intersections
        ELSE LET t == Fraction(d1, d1 - d2)
             IN  IF t[1] >= 0 /\ t[1] <= t[2]
                 THEN Append(intersections, lerp(p1, p2, t))
                 ELSE intersections

\* the pairing loop (lines 414-420): intersections[i], intersections[i+1]
\* for i = 0, 2, 4, ... while i < length - 1
RECURSIVE pairSegments(_, _)
pairSegments(intersections, i) ==
    IF Len(intersections) >= 2 /\ i < Len(intersections)
    THEN <<<<intersections[i], intersections[i + 1]>>>>
             \o pairSegments(intersections, i + 2)
    ELSE <<>>

\* the loop body for one triangle (lines 393-420): the segments it pushes
triangleSegments(tri, pl, tolerance) ==
    LET a == tri[1]
        b == tri[2]
        c == tri[3]
        da == distanceToPoint(pl, a)
        db == distanceToPoint(pl, b)
        dc == distanceToPoint(pl, c)
    IN  IF Abs(da) < tolerance /\ Abs(db) < tolerance /\ Abs(dc) < tolerance
        THEN << <<clone(a), clone(b)>>, <<clone(b), clone(c)>>, <<clone(c), clone(a)>> >>
        ELSE LET i1 == computeIntersection(a, b, da, db, <<>>, tolerance)
                 i2 == computeIntersection(b, c, db, dc, i1, tolerance)
                 i3 == computeIntersection(c, a, dc, da, i2, tolerance)
             IN  pairSegments(i3, 1)

\* the loop over the triangles (lines 388-421)
RECURSIVE allSegments(_, _, _)
allSegments(triangles, pl, tolerance) ==
    IF triangles = <<>>
    THEN <<>>
    ELSE triangleSegments(Head(triangles), pl, tolerance)
             \o allSegments(Tail(triangles), pl, tolerance)

\* buildSectionLineGeometry (lines 377-430).  A geometry is its position
\* attribute read triangle by triangle (through the index when there is
\* one, lines 389-395); the result is the segment list, or null.
buildSectionLineGeometry(geometry, pl, tolerance) ==
    IF "position" \notin DOMAIN geometry
    THEN Null
    ELSE LET segments == allSegments(geometry.position, pl, tolerance)
         IN  IF segments = <<>> THEN Null ELSE [position |-> segments]

(***************************************************************************)
(* The update pass on its own: SpecPass starts in the states a GUI write   *)
(* leaves behind, a parameter record whose sectionOffset is any value the  *)
(* offset slider can hold (its range is the limit of an earlier shape),    *)
(* and runs the handler wired to the written field.                        *)
(***************************************************************************)
\* slider values of the shape parameters that decide the limit
PassBaseRadii == {20, 45, 80}
PassWallThicknesses == {1, 4, 15}
\* values the offset slider can hold on entry to the pass
PassOffsets == {-79, -41, -6, -5, -3, 0, 3, 5, 6, 41, 79}

InitPass ==
    /\ params \in {[InitialParams EXCEPT !.baseRadius = r, !.wallThickness = w,
                                         !.sectionEnabled = e, !.sectionOffset = o] :
                      r \in PassBaseRadii, w \in PassWallThicknesses,
                      e \in BOOLEAN, o \in PassOffsets}
    /\ needsUpdate \in BOOLEAN
    /\ vaseGeometry = createVaseGeometry(InitialParams, TRUE)
    /\ cachedVolume = vaseMeshVolume(vaseGeometry)
    /\ sectionPlane = 0
    /\ clippingPlanes = FALSE
    /\ sectionLines = [geometry |-> EmptyGeometry, visible |-> FALSE]
    /\ frame = [event |-> "write", rawOffset |-> params.sectionOffset]
    /\ IdleSection
    /\ IdleFunctions

\* the result of a pass becomes the next state; frame keeps the offset the
\* pass found on entry
CommitPass(s) ==
    /\ params' = s.params
    /\ needsUpdate' = s.needsUpdate
    /\ vaseGeometry' = s.vaseGeometry
    /\ cachedVolume' = s.cachedVolume
    /\ sectionPlane' = s.sectionPlane
    /\ clippingPlanes' = s.clippingPlanes
    /\ sectionLines' = s.sectionLines
    /\ frame' = [event |-> "pass", rawOffset |-> params.sectionOffset]
    /\ UNCHANGED secVars
    /\ UNCHANGED fnVars

\* the pass run by the handler of a section parameter (lines 310-314)
SectionPass ==
    /\ frame.event = "write"
    /\ CommitPass(updateSectionState(Entry))

\* the pass run by the handler of a shape parameter (lines 295-305)
ShapePass ==
    /\ frame.event = "write"
    /\ CommitPass(refreshGeometry(Entry))

NextPass ==
    \/ SectionPass
    \/ ShapePass

SpecPass == InitPass /\ [][NextPass]_vars

\* C4: after an update pass sectionOffset lies in [-limit, limit] with
\* limit = max(baseRadius - wallThickness, 5): an offset found beyond limit
\* has become exactly limit (or -limit), an offset found inside the range is
\* unchanged, and the cutting plane's constant is -sectionOffset.
OffsetClampedToLimit ==
    frame.event = "pass" =>
        LET room == params.baseRadius - params.wallThickness
            limit == IF room > 5 THEN room ELSE 5
            raw == frame.rawOffset
        IN  /\ -limit <= params.sectionOffset
            /\ params.sectionOffset <= limit
            /\ (raw > limit => params.sectionOffset = limit)
            /\ (raw < -limit => params.sectionOffset = -limit)
            /\ (-limit <= raw /\ raw <= limit => params.sectionOffset = raw)
            /\ sectionPlane = -params.sectionOffset

\* C4 witness: a pass found the offset below -limit and left it at exactly
\* -limit, with the plane's constant at limit.
OffsetPulledToLimit ==
    /\ frame.event = "pass"
    /\ frame.rawOffset < -(params.baseRadius - params.wallThickness)
    /\ params.baseRadius - params.wallThickness > 5
    /\ params.sectionOffset = -(params.baseRadius - params.wallThickness)
    /\ sectionPlane = params.baseRadius - params.wallThickness

(***************************************************************************)
(* Properties of the Regeneration Controller, checked under Spec           *)
(***************************************************************************)
\* the five shape fields of a parameter record
ShapeOf(p) == <<p.height, p.baseRadius, p.wallThickness,
                p.radialSegments, p.heightSegments>>

\* C1: whenever the controller is Clean (needsUpdate is false) the installed
\* geometry is the one createVaseGeometry produces from the current shape
\* parameters, in every state edits and animation frames can reach.
CleanMeshIsCurrent ==
    ~needsUpdate => vaseGeometry = createVaseGeometry(params, TRUE)

\* C1 witness: a Clean state reached by a rebuild for edited parameters.
CleanAfterEditedRebuild ==
    /\ ~needsUpdate
    /\ frame.event = "tick"
    /\ frame.builds = 1
    /\ ShapeOf(params) # ShapeOf(InitialParams)
    /\ vaseGeometry = createVaseGeometry(params, TRUE)

\* C2: an animation frame rebuilds the mesh at most once however many shape
\* parameters are pending, a successful rebuild installs the geometry of the
\* parameter values current at the frame, and a frame that starts Clean
\* rebuilds nothing.
OneRebuildPerFrame ==
    frame.event = "tick" =>
        /\ frame.builds <= 1
        /\ (frame.builds = 1 /\ ~frame.threw
                => vaseGeometry = createVaseGeometry(params, TRUE))
        /\ (~frame.wasDirty => frame.builds = 0)

\* C2 witness: one frame realised several pending parameter changes with a
\* single rebuild.
SeveralEditsOneRebuild ==
    /\ frame.event = "tick"
    /\ frame.pending >= 2
    /\ frame.builds = 1
    /\ ~frame.threw
    /\ vaseGeometry = createVaseGeometry(params, TRUE)

\* C3 as stated: any mutation of any field of the parameter record takes a
\* Clean controller to Dirty.
AnyMutationDirties ==
    [][(~needsUpdate /\ params' # params) => needsUpdate']_vars

\* C3 amended: a mutation of a shape field leaves the controller Dirty; a
\* mutation of sectionEnabled or sectionOffset alone leaves the flag as it
\* was, the section state being refreshed by the handler itself.
ShapeMutationDirties ==
    [][/\ (ShapeOf(params') # ShapeOf(params) => needsUpdate')
       /\ (ShapeOf(params') = ShapeOf(params) /\ params' # params
               => needsUpdate' = needsUpdate)]_vars

\* C3 witness: an edit found the controller Clean and left it Dirty with a
\* geometry that no longer matches the shape parameters.
EditMadeDirty ==
    /\ frame.event = "edit"
    /\ ~frame.wasDirty
    /\ needsUpdate
    /\ vaseGeometry # createVaseGeometry(params, TRUE)

\* C5: the geometry a frame draws is the installed one, completely built and
\* not disposed: the geometry installed before the frame or the one built
\* from the current parameters; a frame whose rebuild throws draws nothing
\* and leaves the previous geometry installed and undisposed.
RenderSeesWholeMesh ==
    [][frame'.event = "tick" =>
          /\ (frame'.rendered # Null =>
                 /\ frame'.rendered = vaseGeometry'
                 /\ frame'.rendered \in {vaseGeometry, createVaseGeometry(params, TRUE)}
                 /\ ~frame'.rendered.disposed)
          /\ (frame'.threw =>
                 /\ frame'.rendered = Null
                 /\ vaseGeometry' = vaseGeometry
                 /\ ~vaseGeometry'.disposed)]_vars

\* C5 witness: a frame whose rebuild threw, with the geometry of the earlier
\* parameters still installed and undisposed.
FailedFrameKeepsOldMesh ==
    /\ frame.event = "tick"
    /\ frame.threw
    /\ frame.rendered = Null
    /\ ~vaseGeometry.disposed
    /\ vaseGeometry # createVaseGeometry(params, TRUE)

\* C6: when the merge yields nothing the build throws, and the build is not
\* run again by a later frame unless a parameter has changed since.
FailedBuildNotRetried ==
    [][(frame.event = "tick" /\ frame.threw /\ frame'.event = "tick"
            /\ params' = params)
          => frame'.builds = 0]_vars

\* C14: in every reachable state the section lines are visible only if
\* sectionEnabled is true; the cutting plane's constant is -sectionOffset;
\* visible lines are the cut of the installed geometry by that plane; and
\* after a frame that rebuilt the mesh the visible lines are cut from the
\* geometry of the current shape parameters, never from one replaced since.
SectionLinesAreCurrent ==
    /\ sectionPlane = -params.sectionOffset
    /\ (sectionLines.visible =>
           /\ params.sectionEnabled
           /\ sectionLines.geometry = vaseSectionLines(vaseGeometry, sectionPlane)
           /\ sectionLines.geometry # Null
           /\ sectionLines.geometry.constant = -params.sectionOffset
           /\ sectionLines.geometry.cutFrom # Replaced)
    /\ (sectionLines.visible /\ frame.event = "tick" /\ frame.builds = 1 /\ ~frame.threw
           => sectionLines.geometry.cutFrom = createVaseGeometry(params, TRUE))

\* C14 witness: with the section enabled and the plane moved off the middle,
\* a frame rebuilt the mesh for edited parameters and the visible lines are
\* the cut of the new geometry.
LinesCutFromRebuiltMesh ==
    /\ sectionLines.visible
    /\ params.sectionOffset # 0
    /\ frame.event = "tick"
    /\ frame.builds = 1
    /\ ~frame.threw
    /\ ShapeOf(params) # ShapeOf(InitialParams)
    /\ sectionLines.geometry = vaseSectionLines(createVaseGeometry(params, TRUE),
                                                -params.sectionOffset)

\* C15: while frames keep coming and the build does not fail, a frame that
\* finds the controller Dirty and builds leaves it Clean; every Dirty state,
\* the one after start-up included, leads to a Clean state in which the
\* installed geometry and the cached volume are those of the current shape
\* parameters; and start-up leads to a first rebuild.
DirtyLeadsToClean ==
    /\ [][(needsUpdate /\ frame'.event = "tick" /\ ~frame'.threw)
             => (~needsUpdate' /\ frame'.builds = 1)]_vars
    /\ (needsUpdate ~>
           (/\ ~needsUpdate
            /\ vaseGeometry = createVaseGeometry(params, TRUE)
            /\ cachedVolume = vaseMeshVolume(createVaseGeometry(params, TRUE))))
    /\ <>(frame.event = "tick" /\ frame.builds = 1 /\ ~frame.threw)

\* C15 witness: a frame found the controller Dirty with an edited shape
\* pending and left it Clean with the geometry and the volume of the current
\* parameters.
EditReflectedAfterFrame ==
    /\ frame.event = "tick"
    /\ frame.wasDirty
    /\ frame.pending >= 1
    /\ ~needsUpdate
    /\ vaseGeometry = createVaseGeometry(params, TRUE)
    /\ cachedVolume = vaseMeshVolume(createVaseGeometry(params, TRUE))

(***************************************************************************)
(* The Section Intersector on its own: SpecSection draws a triangle list   *)
(* and a cutting plane, runs computeIntersection over the edges of the     *)
(* first triangle in the order of lines 410-412, and runs                  *)
(* buildSectionLineGeometry and the rest of updateSectionLines on the      *)
(* whole list.                                                             *)
(***************************************************************************)
\* vertex x coordinates run over -MaxCoordinate..MaxCoordinate
MaxCoordinate == 3

\* the section plane's normal (line 98)
PlaneNormal == <<1, 0, 0>>

\* a triangle with the given x coordinates; its vertices differ in y or z
Triangle(xa, xb, xc) == <<<<xa, 0, 0>>, <<xb, 4, 0>>, <<xc, 0, 4>>>>

Coordinates == (-MaxCoordinate)..MaxCoordinate

\* the triangle of the 5 mm example: an edge from d = 5 mm to d = -5 mm
FiveMillimetres == 5 * UnitsPerMillimetre
WideTriangle == Triangle(FiveMillimetres, -FiveMillimetres, -FiveMillimetres)

\* triangles that may follow the first one in the list
FollowingTriangles ==
    {Triangle(3, 3, 3), Triangle(-3, 0, 3), Triangle(3, 3, -3)}

\* constants of the cutting plane: through the middle of the vertices'
\* range, off the middle, and well outside the bounding box
PlaneConstants == {0, 1, -10}

\* section lines shown for an earlier cut
EarlierLines ==
    [geometry |-> [position |-> << <<clone(<<0, 0, 0>>), clone(<<0, 4, 0>>)>> >>],
     visible |-> TRUE]

\* not computed yet
NotBuilt == [pending |-> TRUE]

InitSection ==
    /\ params = Loaded.params
    /\ needsUpdate = Loaded.needsUpdate
    /\ vaseGeometry = Loaded.vaseGeometry
    /\ cachedVolume = Loaded.cachedVolume
    /\ sectionPlane = Loaded.sectionPlane
    /\ clippingPlanes = Loaded.clippingPlanes
    /\ sectionLines = Loaded.sectionLines
    /\ frame = [event |-> "load", wasDirty |-> FALSE, pending |-> 0, builds |-> 0,
                threw |-> FALSE, rendered |-> Null]
    /\ \/ /\ \E xa \in Coordinates, xb \in Coordinates, xc \in Coordinates :
                \/ mesh = <<Triangle(xa, xb, xc)>>
                \/ \E following \in FollowingTriangles :
                      mesh = <<Triangle(xa, xb, xc), following>>
          /\ \E constant \in PlaneConstants :
                plane = [normal |-> PlaneNormal, constant |-> constant]
       \/ /\ mesh = <<WideTriangle>>
          /\ plane = [normal |-> PlaneNormal, constant |-> 0]
    /\ bucket = <<>>
    /\ edgeCall = Null
    /\ lineGeometry = NotBuilt
    /\ lineState \in {[geometry |-> EmptyGeometry, visible |-> FALSE], EarlierLines}
    /\ IdleFunctions

\* the first triangle lies on the plane: line 401 takes the branch that
\* skips computeIntersection
OnPlane(tri, pl, tolerance) ==
    \A i \in 1..3 : Abs(distanceToPoint(pl, tri[i])) < tolerance

\* the next call of computeIntersection on the first triangle (lines
\* 410-412): edge (a,b), then (b,c), then (c,a), into the same bucket
IntersectEdge ==
    /\ ~OnPlane(mesh[1], plane, Tolerance)
    /\ LET k == IF edgeCall = Null THEN 1 ELSE edgeCall.edge + 1
       IN  /\ k <= 3
           /\ LET p1 == mesh[1][k]
                  p2 == mesh[1][(k % 3) + 1]
                  d1 == distanceToPoint(plane, p1)
                  d2 == distanceToPoint(plane, p2)
              IN  /\ bucket' = computeIntersection(p1, p2, d1, d2, bucket, Tolerance)
                  /\ edgeCall' = [edge |-> k, p1 |-> p1, p2 |-> p2,
                                  d1 |-> d1, d2 |-> d2, before |-> bucket]
    /\ UNCHANGED <<mesh, plane, lineGeometry, lineState>>
    /\ UNCHANGED ctlVars
    /\ UNCHANGED fnVars

\* updateSectionLines with section mode enabled (lines 168-176) on the
\* triangle list
BuildLines ==
    /\ lineGeometry = NotBuilt
    /\ LET built == buildSectionLineGeometry([position |-> mesh], plane, Tolerance)
       IN  /\ lineGeometry' = built
           /\ lineState' = showSectionLines(TRUE, built, lineState)
    /\ UNCHANGED <<mesh, plane, bucket, edgeCall>>
    /\ UNCHANGED ctlVars
    /\ UNCHANGED fnVars

NextSection ==
    \/ IntersectEdge
    \/ BuildLines

SpecSection == InitSection /\ [][NextSection]_vars

(***************************************************************************)
(* Properties of the Section Intersector, checked under SpecSection        *)
(***************************************************************************)
\* the signed distances of the first triangle's vertices
Dist(i) == distanceToPoint(plane, mesh[1][i])
\* vertex i is within tolerance of the plane
Near(i) == -Tolerance <= Dist(i) /\ Dist(i) <= Tolerance
\* vertices i and j are beyond tolerance on opposite sides
Opposite(i, j) ==
    \/ (Dist(i) > Tolerance /\ Dist(j) < -Tolerance)
    \/ (Dist(i) < -Tolerance /\ Dist(j) > Tolerance)
\* the point where the segment from vertex i to vertex j meets the plane
Crossing(i, j) ==
    LET t == Fraction(Dist(i), Dist(i) - Dist(j))
        at(c) == Fraction(mesh[1][i][c] * t[2] + (mesh[1][j][c] - mesh[1][i][c]) * t[1],
                          t[2])
    IN  <<at(1), at(2), at(3)>>
\* vertex i as an emitted point
Vertex(i) == <<<<mesh[1][i][1], 1>>, <<mesh[1][i][2], 1>>, <<mesh[1][i][3], 1>>>>
\* the two vertices other than i, in triangle order
Others(i) == IF i = 1 THEN <<2, 3>> ELSE IF i = 2 THEN <<3, 1>> ELSE <<1, 2>>
\* buildSectionLineGeometry has run on a single triangle
BuiltOne == lineGeometry # NotBuilt /\ Len(mesh) = 1

\* C7: for a triangle with exactly one vertex within tolerance of the plane
\* and the other two beyond tolerance on opposite sides,
\* buildSectionLineGeometry emits the segment joining that vertex to the
\* crossing point on the opposite edge, whichever vertex it is.
VertexOnPlaneSegment ==
    \A i \in 1..3 :
        (BuiltOne /\ Near(i) /\ Opposite(Others(i)[1], Others(i)[2])) =>
            /\ lineGeometry # Null
            /\ Len(lineGeometry.position) = 1
            /\ lineGeometry.position[1] \in
                  {<<Vertex(i), Crossing(Others(i)[1], Others(i)[2])>>,
                   <<Crossing(Others(i)[1], Others(i)[2]), Vertex(i)>>}

\* C8: for a triangle with no vertex within tolerance and vertices on both
\* sides, each crossing edge adds exactly one point and the third edge
\* none, two points in all, and exactly one segment is emitted.
StrictCrossing ==
    /\ \A i \in 1..3 : ~Near(i)
    /\ \E i, j \in 1..3 : Opposite(i, j)

CrossingGivesOneSegment ==
    StrictCrossing =>
        /\ (edgeCall # Null =>
               Len(bucket) - Len(edgeCall.before) =
                   IF Opposite(edgeCall.edge, (edgeCall.edge % 3) + 1) THEN 1 ELSE 0)
        /\ (edgeCall # Null /\ edgeCall.edge = 3 => Len(bucket) = 2)
        /\ (BuiltOne =>
               /\ lineGeometry # Null
               /\ Len(lineGeometry.position) = 1)
        /\ (BuiltOne /\ edgeCall # Null /\ edgeCall.edge = 3 =>
               lineGeometry.position = <<<<bucket[1], bucket[2]>>>>)

\* C8 witness: a triangle cut strictly between its vertices, all three
\* edges processed and the lines built.
StrictCrossingBuilt ==
    /\ StrictCrossing
    /\ BuiltOne
    /\ edgeCall # Null
    /\ edgeCall.edge = 3
    /\ Len(bucket) = 2
    /\ Len(lineGeometry.position) = 1

\* C9: the case table of computeIntersection for an edge (p1, p2) with
\* distances d1, d2: both within tolerance adds p1 and p2; exactly one
\* within tolerance adds that endpoint only; neither within tolerance and
\* opposite signs adds the one point p1 + (p2 - p1) * d1/(d1 - d2), whose
\* parameter lies in [0, 1] (for d1 = -d2 it is the midpoint); same sign
\* adds nothing; never more than two points are added.
EdgeCaseTable ==
    edgeCall # Null =>
        LET d1 == edgeCall.d1
            d2 == edgeCall.d2
            p1 == edgeCall.p1
            p2 == edgeCall.p2
            near1 == -Tolerance <= d1 /\ d1 <= Tolerance
            near2 == -Tolerance <= d2 /\ d2 <= Tolerance
            opposite == \/ (d1 > Tolerance /\ d2 < -Tolerance)
                        \/ (d1 < -Tolerance /\ d2 > Tolerance)
            added == SubSeq(bucket, Len(edgeCall.before) + 1, Len(bucket))
            point(q) == <<<<q[1], 1>>, <<q[2], 1>>, <<q[3], 1>>>>
            \* t = d1/(d1 - d2) in lowest terms
            t == Fraction(d1, d1 - d2)
            \* x = p1 + (p2 - p1) * t, coordinate by coordinate
            onLine(x) == \A c \in 1..3 :
                            x[c][1] * t[2] =
                                x[c][2] * (p1[c] * t[2] + (p2[c] - p1[c]) * t[1])
        IN  /\ SubSeq(bucket, 1, Len(edgeCall.before)) = edgeCall.before
            /\ Len(added) <= 2
            /\ (near1 /\ near2 => added = <<point(p1), point(p2)>>)
            /\ (near1 /\ ~near2 => added = <<point(p1)>>)
            /\ (~near1 /\ near2 => added = <<point(p2)>>)
            /\ (~near1 /\ ~near2 /\ opposite =>
                   /\ Len(added) = 1
                   /\ onLine(added[1])
                   /\ 0 <= t[1]
                   /\ t[1] <= t[2]
                   /\ (d1 = -d2 =>
                          \A c \in 1..3 : 2 * added[1][c][1] = added[1][c][2] * (p1[c] + p2[c])))
            /\ (~near1 /\ ~near2 /\ ~opposite => added = <<>>)

\* C9 witness: the edge of the example, d1 = 5 mm and d2 = -5 mm, gave the
\* midpoint of its endpoints.
FiveMillimetreMidpoint ==
    /\ edgeCall # Null
    /\ edgeCall.d1 = FiveMillimetres
    /\ edgeCall.d2 = -FiveMillimetres
    /\ bucket = Append(edgeCall.before, <<<<0, 1>>, <<2, 1>>, <<0, 1>>>>)

\* C10: when every vertex of the mesh lies on the same side of the plane
\* at a distance greater than tolerance, buildSectionLineGeometry emits no
\* segment and returns null, and the section lines are not shown.
AllOneSide ==
    \/ \A k \in 1..Len(mesh) : \A i \in 1..3 :
          distanceToPoint(plane, mesh[k][i]) > Tolerance
    \/ \A k \in 1..Len(mesh) : \A i \in 1..3 :
          distanceToPoint(plane, mesh[k][i]) < -Tolerance

MissedMeshGivesNoLines ==
    (lineGeometry # NotBuilt /\ AllOneSide) =>
        /\ lineGeometry = Null
        /\ ~lineState.visible

\* C10 witness: the plane is outside the bounding box of a two-triangle
\* mesh whose lines were shown before; the result is null and they are
\* hidden.
PlaneOutsideBox ==
    /\ lineGeometry = Null
    /\ Len(mesh) = 2
    /\ plane.constant = -10
    /\ AllOneSide
    /\ lineState.geometry = EarlierLines.geometry
    /\ ~lineState.visible

(***************************************************************************)
(* The shape functions on their own: SpecShape draws a parameter record    *)
(* with positive lengths and applies createVaseGeometry and                *)
(* computeInteriorVolume to it, as updateVaseMesh and updateVolumeReadout  *)
(* do (lines 284, 212).  The lengths are the ends of the sliders' ranges   *)
(* and the values of lines 50-60, and positive lengths below the ranges:   *)
(* the functions take any VaseParams record, and the sliders (lines        *)
(* 295-305) are all that keeps the lower values from them.                 *)
(***************************************************************************)
ShapeHeights == {5, 80, 220, 400}
ShapeBaseRadii == {1, 4, 20, 45, 80}
ShapeWallThicknesses == {1, 4, 15}
ShapeRadialSegments == {24, 96, 256}
ShapeHeightSegments == {24, 110, 220}

\* the parameter records with the given lengths and segment counts
ShapeRecords(heights, radii, walls) ==
    {[InitialParams EXCEPT !.height = h, !.baseRadius = r,
                           !.wallThickness = w,
                           !.radialSegments = rs,
                           !.heightSegments = hs] :
        h \in heights, r \in radii, w \in walls,
        rs \in ShapeRadialSegments, hs \in ShapeHeightSegments}

\* one of the records is in params and neither function has been applied
ShapeStart(records) ==
    /\ params \in records
    /\ needsUpdate = TRUE
    /\ vaseGeometry = createVaseGeometry(InitialParams, TRUE)
    /\ cachedVolume = vaseMeshVolume(vaseGeometry)
    /\ sectionPlane = 0
    /\ clippingPlanes = FALSE
    /\ sectionLines = [geometry |-> EmptyGeometry, visible |-> FALSE]
    /\ frame = [event |-> "load", wasDirty |-> FALSE, pending |-> 0, builds |-> 0,
                threw |-> FALSE, rendered |-> Null]
    /\ IdleSection
    /\ shell = Null
    /\ interior = Null
    /\ solid = <<>>
    /\ measure = Null

InitShape == ShapeStart(ShapeRecords(ShapeHeights, ShapeBaseRadii, ShapeWallThicknesses))

\* createVaseGeometry(params) (line 284); the merge may yield nothing
BuildShell ==
    /\ shell = Null
    /\ \E merged \in BOOLEAN : shell' = createVaseGeometry(params, merged)
    /\ UNCHANGED <<interior, solid, measure>>
    /\ UNCHANGED ctlVars
    /\ UNCHANGED secVars

\* computeInteriorVolume(params) (line 212), with the dimensions it used
ReadInteriorVolume ==
    /\ interior = Null
    /\ interior' = [cavity |-> interiorCavity(params),
                    volume |-> computeInteriorVolume(params)]
    /\ UNCHANGED <<shell, solid, measure>>
    /\ UNCHANGED ctlVars
    /\ UNCHANGED secVars

NextShape ==
    \/ BuildShell
    \/ ReadInteriorVolume

SpecShape == InitShape /\ [][NextShape]_vars

(***************************************************************************)
(* SpecSliders: the same two functions on the records the program gives    *)
(* them.  params is written only by the sliders (lines 295-305), which     *)
(* keep height in 80..400, baseRadius in 20..80 and wallThickness in       *)
(* 1..15; the values of lines 50-60 lie inside these ranges.  The sets     *)
(* hold both ends of each range and the value of lines 50-60, so the       *)
(* thickest wall meets the smallest radius and the lowest height.          *)
(***************************************************************************)
SliderHeights == {80, 220, 400}
SliderBaseRadii == {20, 45, 80}
SliderWallThicknesses == {1, 4, 15}

InitSliders == ShapeStart(ShapeRecords(SliderHeights, SliderBaseRadii,
                                       SliderWallThicknesses))

SpecSliders == InitSliders /\ [][NextShape]_vars

(***************************************************************************)
(* Properties of the shape functions, checked under SpecShape              *)
(***************************************************************************)
\* C11: computeInteriorVolume returns pi * innerRadius^2 * innerHeight with
\* innerRadius = baseRadius - wallThickness, bottomThickness =
\* 2 * wallThickness held between 2 and 0.4 * height, and innerHeight =
\* max(height - bottomThickness, 0); it returns 0 when innerRadius <= 0; for
\* height 220, baseRadius 45, wallThickness 4 the bottom is 8, the inner
\* height 212 and the volume pi * 1681 * 212.
InteriorVolumeFormula ==
    interior # Null =>
        LET innerRadius == params.baseRadius - params.wallThickness
            twice == 2 * params.wallThickness
            \* 2 <= bottomThickness <= 0.4 * height, compared as 5 * b <= 2 * h
            bottomThickness == CHOOSE b \in 0..params.height :
                                  \/ b = twice /\ 2 <= b /\ 5 * b <= 2 * params.height
                                  \/ b = 2 /\ twice < 2
                                  \/ 5 * b = 2 * params.height /\ 5 * twice > 2 * params.height
            room == params.height - bottomThickness
            innerHeight == IF room > 0 THEN room ELSE 0
        IN  /\ interior.volume = IF innerRadius <= 0
                                 THEN 0
                                 ELSE innerRadius * innerRadius * innerHeight
            /\ (params.height = 220 /\ params.baseRadius = 45 /\ params.wallThickness = 4
                    => /\ bottomThickness = 8
                       /\ innerHeight = 212
                       /\ interior.volume = 1681 * 212)

\* C11 witness: the volume of the example has been computed as pi * 1681 *
\* 212 = pi * 356372.
ExampleInteriorVolume ==
    /\ params.height = 220
    /\ params.baseRadius = 45
    /\ params.wallThickness = 4
    /\ interior # Null
    /\ interior.volume = 356372

\* the lengths of the parameter record are positive
PositiveLengths ==
    params.height > 0 /\ params.baseRadius > 0 /\ params.wallThickness > 0

\* createVaseGeometry has returned a geometry
ShellBuilt == shell # Null /\ shell # BuildError

(***************************************************************************)
(* Properties of the shape functions, checked under SpecSliders            *)
(***************************************************************************)
\* C12: for every parameter record with positive height, baseRadius and
\* wallThickness, the inner radius createVaseGeometry builds the cavity with
\* lies between the guard of 2 mm and the outer radius, the outer radius
\* being baseRadius.
InnerRadiusBetweenGuardAndOuter ==
    (ShellBuilt /\ PositiveLengths) =>
        /\ shell.outerRadius = params.baseRadius
        /\ 2 <= shell.innerRadius
        /\ shell.innerRadius <= shell.outerRadius

\* C12 witness: the shell of the smallest radius and the thickest wall, the
\* nearest the sliders bring the inner radius to the guard: 5 mm inside an
\* outer radius of 20 mm.
ThickestWallSmallestRadius ==
    /\ params.baseRadius = 20
    /\ params.wallThickness = 15
    /\ PositiveLengths
    /\ ShellBuilt
    /\ shell.innerRadius = 5
    /\ shell.outerRadius = 20

\* C16: for every parameter record, the inner radius and the inner height
\* computeInteriorVolume works with are those createVaseGeometry builds the
\* inner wall with, and the inner wall runs from bottomThickness up to the
\* height of the lip.
CavityDimensionsAgree ==
    (ShellBuilt /\ interior # Null) =>
        /\ interior.cavity.innerRadius = shell.innerRadius
        /\ interior.cavity.innerHeight = shell.innerHeight
        /\ shell.innerBottom = shell.bottomThickness
        /\ shell.innerTop = shell.lipHeight

\* C16 witness: for the lowest vase with the thickest wall and the smallest
\* radius both functions have run and both have a cavity of radius 5 and
\* height 50, the inner wall standing from 30 to the lip at 80.
LowThickVaseCavityAgrees ==
    /\ params.height = 80
    /\ params.baseRadius = 20
    /\ params.wallThickness = 15
    /\ ShellBuilt
    /\ interior # Null
    /\ interior.cavity.innerRadius = 5
    /\ shell.innerRadius = 5
    /\ interior.cavity.innerHeight = 50
    /\ shell.innerHeight = 50
    /\ shell.innerBottom = 30
    /\ shell.innerTop = 80
    /\ shell.lipHeight = 80

(***************************************************************************)
(* Volume Estimator (lines 470-494).  A geometry is its position attribute *)
(* read triangle by triangle, as for the Section Intersector; vertices are *)
(* triples of integers and the volume is a reduced fraction <<n, d>>.      *)
(***************************************************************************)
\* Vector3.dot and Vector3.cross (line 490)
dot(u, v) == u[1] * v[1] + u[2] * v[2] + u[3] * v[3]
cross(u, v) == <<u[2] * v[3] - u[3] * v[2],
                 u[3] * v[1] - u[1] * v[3],
                 u[1] * v[2] - u[2] * v[1]>>

\* the loop of lines 481-491 with the sign of every triangle dropped
RECURSIVE unsignedSum(_)
unsignedSum(triangles) ==
    IF triangles = <<>>
    THEN 0
    ELSE Abs(dot(Head(triangles)[1], cross(Head(triangles)[2], Head(triangles)[3])))
             + unsignedSum(Tail(triangles))

\* the loop of lines 481-491: volume += a.dot(b.clone().cross(c))
RECURSIVE tripleProductSum(_)
tripleProductSum(triangles) ==
    IF triangles = <<>>
    THEN 0
    ELSE dot(Head(triangles)[1], cross(Head(triangles)[2], Head(triangles)[3]))
             + tripleProductSum(Tail(triangles))

\* computeMeshVolume that takes the absolute value triangle by triangle
computeMeshVolumeUnsigned(geometry) ==
    IF "position" \notin DOMAIN geometry
    THEN Fraction(0, 1)
    ELSE Fraction(unsignedSum(geometry.position), 6)

\* computeMeshVolume (lines 470-494): Math.abs(volume / 6)
computeMeshVolume(geometry) ==
    IF "position" \notin DOMAIN geometry
    THEN Fraction(0, 1)
    ELSE LET sixth == Fraction(tripleProductSum(geometry.position), 6)
         IN  <<Abs(sixth[1]), sixth[2]>>

\* BufferGeometry.translate (lines 242, 246): every vertex moved by offset
translate(triangles, offset) ==
    [k \in 1..Len(triangles) |->
        [i \in 1..3 |-> <<triangles[k][i][1] + offset[1],
                          triangles[k][i][2] + offset[2],
                          triangles[k][i][3] + offset[3]>>]]

(***************************************************************************)
(* SpecVolume measures a triangle mesh, moves all its vertices by a        *)
(* constant offset and measures it again.                                  *)
(***************************************************************************)
\* no volume computed yet
Unmeasured == <<>>

\* each coordinate of the accumulated offset stays within -MaxShift..MaxShift
MaxShift == 1

\* the corners of a tetrahedron that has the origin as a corner
Corner == <<<<0, 0, 0>>, <<2, 0, 0>>, <<0, 2, 0>>, <<0, 0, 2>>>>
Face(i, j, k) == <<Corner[i], Corner[j], Corner[k]>>
\* its four faces wound outwards
Tetrahedron == <<Face(1, 3, 2), Face(1, 2, 4), Face(1, 4, 3), Face(2, 3, 4)>>
\* the same faces wound inwards
InwardTetrahedron == <<Face(1, 2, 3), Face(1, 4, 2), Face(1, 3, 4), Face(2, 4, 3)>>
\* two tetrahedra sharing no vertex, the second away from the origin
TwoTetrahedra == Tetrahedron \o translate(Tetrahedron, <<3, 1, 0>>)
\* the tetrahedron without its slanted face: an open mesh
OpenTetrahedron == <<Face(1, 3, 2), Face(1, 2, 4), Face(1, 4, 3)>>
\* the tetrahedron with one face wound against the others
MixedTetrahedron == <<Face(1, 3, 2), Face(1, 2, 4), Face(1, 4, 3), Face(2, 4, 3)>>

Solids == {Tetrahedron, InwardTetrahedron, TwoTetrahedra, OpenTetrahedron,
           MixedTetrahedron}

\* translations along one axis
UnitShifts == {<<1, 0, 0>>, <<-1, 0, 0>>, <<0, 1, 0>>, <<0, -1, 0>>,
               <<0, 0, 1>>, <<0, 0, -1>>}

InitVolume ==
    /\ params = Loaded.params
    /\ needsUpdate = Loaded.needsUpdate
    /\ vaseGeometry = Loaded.vaseGeometry
    /\ cachedVolume = Loaded.cachedVolume
    /\ sectionPlane = Loaded.sectionPlane
    /\ clippingPlanes = Loaded.clippingPlanes
    /\ sectionLines = Loaded.sectionLines
    /\ frame = [event |-> "load", wasDirty |-> FALSE, pending |-> 0, builds |-> 0,
                threw |-> FALSE, rendered |-> Null]
    /\ IdleSection
    /\ shell = Null
    /\ interior = Null
    /\ solid \in Solids
    /\ measure = [offset |-> <<0, 0, 0>>, original |-> Unmeasured,
                 current |-> Unmeasured]

\* computeMeshVolume on the mesh as it lies now
MeasureVolume ==
    /\ measure.current = Unmeasured
    /\ LET volume == computeMeshVolume([position |-> solid])
       IN  measure' = [measure EXCEPT
                          !.current = volume,
                          !.original = IF measure.offset = <<0, 0, 0>> THEN volume ELSE @]
    /\ UNCHANGED <<shell, interior, solid>>
    /\ UNCHANGED ctlVars
    /\ UNCHANGED secVars

\* every vertex of the measured mesh is moved by the same offset
TranslateSolid ==
    /\ measure.original # Unmeasured
    /\ \E shift \in UnitShifts :
          LET offset == <<measure.offset[1] + shift[1],
                          measure.offset[2] + shift[2],
                          measure.offset[3] + shift[3]>>
          IN  /\ \A c \in 1..3 : Abs(offset[c]) <= MaxShift
              /\ solid' = translate(solid, shift)
              /\ measure' = [measure EXCEPT !.offset = offset, !.current = Unmeasured]
    /\ UNCHANGED <<shell, interior>>
    /\ UNCHANGED ctlVars
    /\ UNCHANGED secVars

NextVolume ==
    \/ MeasureVolume
    \/ TranslateSolid

SpecVolume == InitVolume /\ [][NextVolume]_vars

(***************************************************************************)
(* Properties of the Volume Estimator, checked under SpecVolume            *)
(***************************************************************************)
\* the directed edges of triangle k, in winding order
EdgesOf(k) == {<<solid[k][1], solid[k][2]>>, <<solid[k][2], solid[k][3]>>,
               <<solid[k][3], solid[k][1]>>}
\* the number of triangles that have the directed edge
Uses(edge) == Cardinality({k \in 1..Len(solid) : edge \in EdgesOf(k)})
\* closed and consistently wound: every edge of every triangle belongs to
\* exactly one other triangle, which runs through it the other way
ClosedConsistentlyWound ==
    \A k \in 1..Len(solid) : \A edge \in EdgesOf(k) :
        Uses(edge) = 1 /\ Uses(<<edge[2], edge[1]>>) = 1

\* C13: for a closed, consistently wound triangle mesh, computeMeshVolume
\* returns after a translation of every vertex by the same offset the value
\* it returned before the translation.
VolumeTranslationInvariant ==
    (ClosedConsistentlyWound /\ measure.original # Unmeasured
        /\ measure.current # Unmeasured)
        => measure.current = measure.original

\* C13 witness: a closed tetrahedron of volume 4/3 has been moved off its
\* place and measured again with the same result.
MovedTetrahedronMeasured ==
    /\ ClosedConsistentlyWound
    /\ Len(solid) = 4
    /\ measure.offset # <<0, 0, 0>>
    /\ measure.original = <<4, 3>>
    /\ measure.current = <<4, 3>>

====
